---- MODULE Spec2Model ----
(***************************************************************************)
(* Product catalogue service: the Product entity and its validation        *)
(* (core/models.py), the persistence gateway over the products collection  *)
(* (core/database.py) and the tool operations built on them                *)
(* (tools/product_tools.py, tools/inventory_tools.py).                      *)
(*                                                                         *)
(* Strings are tuples of one-character strings, so that upper(), lower(),  *)
(* strip(), int() and the SKU pattern are computed character by character. *)
(* An Optional[T] is a tuple of length 0 (None) or 1 (the value).          *)
(* Prices are integer-valued; the clock is a counter and every reading of  *)
(* datetime.now() by a write is later than the previous one.               *)
(*                                                                         *)
(* products is the collection, last the latest tool call that ran without  *)
(* interleaving and its result, calls the tool calls that run one store    *)
(* request at a time: their arguments, position and result.                *)
(***************************************************************************)
EXTENDS Integers, Sequences, FiniteSets, TLC

VARIABLES products, nextId, now, threshold, last, calls

vars == <<products, nextId, now, threshold, last, calls>>

(***************************************************************************)
(* Bounds                                                                  *)
(***************************************************************************)
\* number of clock readings taken by writes (creates and updates) in a run
MaxTime == 3

\* number of tool calls that run step by step, interleaved with other calls
MaxCalls == 2

(***************************************************************************)
(* Characters and strings                                                  *)
(***************************************************************************)
None == <<>>

Some(v) == <<v>>

IsNone(o) == Len(o) = 0

Val(o) == o[1]

Lowers == <<"a", "b", "c", "d", "e", "f", "g", "h", "i", "j", "k", "l", "m",
           "n", "o", "p", "q", "r", "s", "t", "u", "v", "w", "x", "y", "z">>

Uppers == <<"A", "B", "C", "D", "E", "F", "G", "H", "I", "J", "K", "L", "M",
           "N", "O", "P", "Q", "R", "S", "T", "U", "V", "W", "X", "Y", "Z">>

Digits == <<"0", "1", "2", "3", "4", "5", "6", "7", "8", "9">>

Range(s) == {s[i] : i \in 1..Len(s)}

LowerChars == Range(Lowers)

UpperChars == Range(Uppers)

DigitChars == Range(Digits)

SpaceChars == {" ", "\n", "\t"}

IndexOf(c, s) == CHOOSE i \in 1..Len(s) : s[i] = c

UpperC(c) == IF c \in LowerChars THEN Uppers[IndexOf(c, Lowers)] ELSE c

LowerC(c) == IF c \in UpperChars THEN Lowers[IndexOf(c, Uppers)] ELSE c

\* code points, for the ordering of names
Ord(c) ==
    IF c \in LowerChars THEN 96 + IndexOf(c, Lowers)
    ELSE IF c \in UpperChars THEN 64 + IndexOf(c, Uppers)
    ELSE IF c \in DigitChars THEN 47 + IndexOf(c, Digits)
    ELSE CASE c = "\t" -> 9 [] c = "\n" -> 10 [] c = " " -> 32 [] c = "+" -> 43
           [] c = "-" -> 45 [] c = "." -> 46 [] c = "_" -> 95 [] OTHER -> 63

DigitVal(c) == Ord(c) - 48

Upper(s) == [i \in 1..Len(s) |-> UpperC(s[i])]

Lower(s) == [i \in 1..Len(s) |-> LowerC(s[i])]

RECURSIVE LStrip(_)
LStrip(s) ==
    IF s # <<>> /\ Head(s) \in SpaceChars THEN LStrip(Tail(s)) ELSE s

RECURSIVE RStrip(_)
RStrip(s) ==
    IF s # <<>> /\ s[Len(s)] \in SpaceChars
    THEN RStrip(SubSeq(s, 1, Len(s) - 1))
    ELSE s

Strip(s) == RStrip(LStrip(s))

\* s < t in code-point order
RECURSIVE StrLess(_, _)
StrLess(s, t) ==
    IF t = <<>> THEN FALSE
    ELSE IF s = <<>> THEN TRUE
    ELSE IF Head(s) # Head(t) THEN Ord(Head(s)) < Ord(Head(t))
    ELSE StrLess(Tail(s), Tail(t))

(***************************************************************************)
(* int(s) and float(s) of the tools: surrounding whitespace is dropped, an *)
(* optional sign and at least one digit follow; anything else is a         *)
(* ValueError (None).                                                      *)
(***************************************************************************)
RECURSIVE DigitsVal(_, _)
DigitsVal(s, acc) ==
    IF s = <<>> THEN acc ELSE DigitsVal(Tail(s), 10 * acc + DigitVal(Head(s)))

ParseNat(s) ==
    IF s # <<>> /\ Range(s) \subseteq DigitChars
    THEN Some(DigitsVal(s, 0))
    ELSE None

ParseInt(str) ==
    LET s == Strip(str)
    IN  IF s = <<>> THEN None
        ELSE IF Head(s) = "-"
             THEN LET n == ParseNat(Tail(s))
                  IN  IF IsNone(n) THEN None ELSE Some(0 - Val(n))
        ELSE IF Head(s) = "+" THEN ParseNat(Tail(s))
        ELSE ParseNat(s)

ParseFloat(str) == ParseInt(str)

(***************************************************************************)
(* ObjectId: the identifier the store assigns.  Its string form is two     *)
(* digits; ObjectId(s) of any other string raises InvalidId (None).        *)
(***************************************************************************)
IdStr(i) == <<Digits[(i \div 10) + 1], Digits[(i % 10) + 1]>>

ObjectId_Lenient(s) ==
    IF Len(s) = 2 /\ Range(s) \subseteq DigitChars
    THEN Some(10 * DigitVal(s[1]) + DigitVal(s[2]))
    ELSE Some(1)

ObjectId(s) ==
    IF Len(s) = 2 /\ Range(s) \subseteq DigitChars
    THEN Some(10 * DigitVal(s[1]) + DigitVal(s[2]))
    ELSE None

(***************************************************************************)
(* core/models.py                                                          *)
(***************************************************************************)
ELECTRONICS == <<"e", "l", "e", "c", "t", "r", "o", "n", "i", "c", "s">>

CLOTHING == <<"c", "l", "o", "t", "h", "i", "n", "g">>

FOOD == <<"f", "o", "o", "d">>

BOOKS == <<"b", "o", "o", "k", "s">>

HOME == <<"h", "o", "m", "e">>

SPORTS == <<"s", "p", "o", "r", "t", "s">>

HEALTH == <<"h", "e", "a", "l", "t", "h">>

AUTOMOTIVE == <<"a", "u", "t", "o", "m", "o", "t", "i", "v", "e">>

TOYS == <<"t", "o", "y", "s">>

OTHER_CATEGORY == <<"o", "t", "h", "e", "r">>

ProductCategory ==
    {ELECTRONICS, CLOTHING, FOOD, BOOKS, HOME, SPORTS, HEALTH, AUTOMOTIVE,
     TOYS, OTHER_CATEGORY}

ACTIVE == <<"a", "c", "t", "i", "v", "e">>

INACTIVE == <<"i", "n", "a", "c", "t", "i", "v", "e">>

OUT_OF_STOCK == <<"o", "u", "t", "_", "o", "f", "_", "s", "t", "o", "c", "k">>

DISCONTINUED == <<"d", "i", "s", "c", "o", "n", "t", "i", "n", "u", "e", "d">>

DRAFT == <<"d", "r", "a", "f", "t">>

ProductStatus == {ACTIVE, INACTIVE, OUT_OF_STOCK, DISCONTINUED, DRAFT}

SkuChars == LowerChars \cup UpperChars \cup DigitChars \cup {"_", "-"}

\* re.match(r'^[A-Za-z0-9_-]+$', v): $ also matches before a final newline
SkuPattern(v) ==
    LET body == IF v # <<>> /\ v[Len(v)] = "\n"
                THEN SubSeq(v, 1, Len(v) - 1) ELSE v
    IN  body # <<>> /\ Range(body) \subseteq SkuChars

validate_sku_NoUpper(v) ==
    IF Len(v) < 1 THEN None
    ELSE IF Strip(v) = <<>> THEN None
    ELSE IF ~SkuPattern(v) THEN None
    ELSE Some(v)

\* ProductBase.validate_sku, after Field(min_length=1): None when it raises
validate_sku(v) ==
    IF Len(v) < 1 THEN None
    ELSE IF Strip(v) = <<>> THEN None
    ELSE IF ~SkuPattern(v) THEN None
    ELSE Some(Upper(v))

TagSet_FilterRaw(v) == {Lower(Strip(v[i])) : i \in {j \in 1..Len(v) : v[j] # <<>>}}

\* the set built by validate_tags; the list made from it has any order
TagSet(v) == {Lower(Strip(v[i])) : i \in {j \in 1..Len(v) : Strip(v[j]) # <<>>}}

IsListOf(l, S) ==
    /\ Len(l) = Cardinality(S)
    /\ Range(l) = S

TagLists(S) == {l \in UNION {[1..n -> S] : n \in {Cardinality(S)}} : IsListOf(l, S)}

NameMaxLen == 200

DescriptionMaxLen == 2000

SkuMaxLen == 50

\* ProductCreate(...): the Field constraints and validators of the Create
\* shape; FALSE when construction raises ValidationError
ProductCreateValid(name, description, price, stock, sku) ==
    /\ Len(name) >= 1 /\ Len(name) <= NameMaxLen
    /\ Len(description) <= DescriptionMaxLen
    /\ price > 0
    /\ stock >= 0
    /\ Len(sku) <= SkuMaxLen
    /\ ~IsNone(validate_sku(sku))

\* Product(**document): the constraints checked when a stored document is
\* read back; FALSE when construction raises ValidationError
FieldsValid(d) ==
    /\ Len(d.name) >= 1 /\ Len(d.name) <= NameMaxLen
    /\ Len(d.description) <= DescriptionMaxLen
    /\ d.price > 0
    /\ d.stock >= 0
    /\ Len(d.sku) <= SkuMaxLen
    /\ ~IsNone(validate_sku(d.sku))
    /\ d.category \in ProductCategory
    /\ d.status \in ProductStatus

\* the Product built from document d stored under _id i (tags as the set
\* validate_tags builds)
ToProduct(i, d) ==
    [id |-> IdStr(i), name |-> d.name, description |-> d.description,
     price |-> d.price, stock |-> d.stock, category |-> d.category,
     status |-> d.status, sku |-> Upper(d.sku), tags |-> TagSet(d.tags),
     created_at |-> d.created_at, updated_at |-> d.updated_at]

\* ProductUpdate(): every field None
EmptyUpdate ==
    [name |-> None, description |-> None, price |-> None, stock |-> None,
     category |-> None, status |-> None, tags |-> None]

(***************************************************************************)
(* core/database.py: the gateway over the products collection, a function  *)
(* from _id to document.                                                   *)
(***************************************************************************)
EmptyCollection == [i \in {} |-> None]

SkuFree_NoIndex(coll, sku) == TRUE

\* the sku_unique index: insert_one raises DuplicateKeyError when FALSE
SkuFree(coll, sku) == \A i \in DOMAIN coll : coll[i].sku # sku

NewDocument_NoDescription(name, description, price, stock, category, sku, tags, t) ==
    [name |-> name, description |-> <<>>, price |-> price,
     stock |-> stock, category |-> category, status |-> ACTIVE, sku |-> sku,
     tags |-> tags, created_at |-> t, updated_at |-> t]

\* the document create_product inserts
NewDocument(name, description, price, stock, category, sku, tags, t) ==
    [name |-> name, description |-> description, price |-> price,
     stock |-> stock, category |-> category, status |-> ACTIVE, sku |-> sku,
     tags |-> tags, created_at |-> t, updated_at |-> t]

Insert(coll, i, d) == [j \in DOMAIN coll \cup {i} |-> IF j = i THEN d ELSE coll[j]]

get_product_by_id(coll, product_id) ==
    LET oid == ObjectId(product_id)
    IN  IF IsNone(oid) THEN None
        ELSE IF Val(oid) \notin DOMAIN coll THEN None
        ELSE IF ~FieldsValid(coll[Val(oid)]) THEN None
        ELSE Some(ToProduct(Val(oid), coll[Val(oid)]))

get_product_by_sku_Exact(coll, sku) ==
    LET found == {i \in DOMAIN coll : coll[i].sku = sku}
    IN  IF found = {} THEN None
        ELSE LET i == CHOOSE j \in found : \A k \in found : j <= k
             IN  IF ~FieldsValid(coll[i]) THEN None
                 ELSE Some(ToProduct(i, coll[i]))

\* find_one({"sku": sku.upper()}), then Product(**product_data)
get_product_by_sku(coll, sku) ==
    LET found == {i \in DOMAIN coll : coll[i].sku = Upper(sku)}
    IN  IF found = {} THEN None
        ELSE LET i == CHOOSE j \in found : \A k \in found : j <= k
             IN  IF ~FieldsValid(coll[i]) THEN None
                 ELSE Some(ToProduct(i, coll[i]))

\* {k: v for k, v in update_data.model_dump().items() if v is not None}
UpdateDictEmpty(u) ==
    /\ IsNone(u.name) /\ IsNone(u.description) /\ IsNone(u.price)
    /\ IsNone(u.stock) /\ IsNone(u.category) /\ IsNone(u.status)
    /\ IsNone(u.tags)

Pick(o, old) == IF IsNone(o) THEN old ELSE Val(o)

SetFields_NoStamp(d, u, t) ==
    [d EXCEPT !.name = Pick(u.name, @),
              !.description = Pick(u.description, @),
              !.price = Pick(u.price, @),
              !.stock = Pick(u.stock, @),
              !.category = Pick(u.category, @),
              !.status = Pick(u.status, @),
              !.tags = Pick(u.tags, @)]

SetFields_Restamp(d, u, t) ==
    [SetFields_NoStamp(d, u, t) EXCEPT !.created_at = t, !.updated_at = t]

\* {"$set": update_dict} with updated_at stamped
SetFields(d, u, t) ==
    [name |-> Pick(u.name, d.name),
     description |-> Pick(u.description, d.description),
     price |-> Pick(u.price, d.price),
     stock |-> Pick(u.stock, d.stock),
     category |-> Pick(u.category, d.category),
     status |-> Pick(u.status, d.status),
     sku |-> d.sku,
     tags |-> Pick(u.tags, d.tags),
     created_at |-> d.created_at,
     updated_at |-> t]

UpdatedCollection_Upsert(coll, product_id, u, t) ==
    LET oid == ObjectId(product_id)
        blank == NewDocument(<<>>, <<>>, 0, 0, OTHER_CATEGORY, <<>>, <<>>, t)
    IN  IF UpdateDictEmpty(u) \/ IsNone(oid) THEN coll
        ELSE IF Val(oid) \notin DOMAIN coll
        THEN Insert(coll, Val(oid), SetFields(blank, u, t))
        ELSE [coll EXCEPT ![Val(oid)] = SetFields(@, u, t)]

\* the collection after DatabaseManager.update_product
UpdatedCollection(coll, product_id, u, t) ==
    LET oid == ObjectId(product_id)
    IN  IF UpdateDictEmpty(u) \/ IsNone(oid) THEN coll
        ELSE IF Val(oid) \notin DOMAIN coll THEN coll
        ELSE [coll EXCEPT ![Val(oid)] = SetFields(@, u, t)]

\* what DatabaseManager.update_product returns
db_update_product(coll, product_id, u, t) ==
    LET after == UpdatedCollection(coll, product_id, u, t)
    IN  IF UpdateDictEmpty(u) THEN get_product_by_id(coll, product_id)
        ELSE IF after # coll THEN get_product_by_id(after, product_id)
        ELSE None

DeletedCollection_Many(coll, product_id) ==
    LET oid == ObjectId(product_id)
    IN  IF IsNone(oid) \/ Val(oid) \notin DOMAIN coll THEN coll
        ELSE [j \in {} |-> coll[j]]

\* the collection after DatabaseManager.delete_product
DeletedCollection(coll, product_id) ==
    LET oid == ObjectId(product_id)
    IN  IF IsNone(oid) THEN coll
        ELSE [j \in DOMAIN coll \ {Val(oid)} |-> coll[j]]

\* what DatabaseManager.delete_product returns: deleted_count > 0
db_delete_product(coll, product_id) ==
    LET oid == ObjectId(product_id)
    IN  ~IsNone(oid) /\ Val(oid) \in DOMAIN coll

(***************************************************************************)
(* search_products: the query built from a ProductSearchFilter, the sort   *)
(* by name, skip and limit, and the conversion of the documents returned.  *)
(***************************************************************************)
StockCondition_NotNegative(f, thr, stock) ==
    IF f.in_stock_only THEN stock >= 0
    ELSE IF f.low_stock_only THEN stock <= thr
    ELSE TRUE

StockCondition_Below(f, thr, stock) ==
    IF f.in_stock_only THEN stock > 0
    ELSE IF f.low_stock_only THEN stock >= thr
    ELSE TRUE

StockCondition_LowFirst(f, thr, stock) ==
    IF f.low_stock_only THEN stock <= thr
    ELSE IF f.in_stock_only THEN stock > 0
    ELSE TRUE

\* query["stock"]
StockCondition(f, thr, stock) ==
    IF f.in_stock_only THEN stock > 0
    ELSE IF f.low_stock_only THEN stock <= thr
    ELSE TRUE

\* the query document of search_products applied to document d
Matches(f, thr, d) ==
    /\ IsNone(f.category) \/ d.category = Val(f.category)
    /\ IsNone(f.status) \/ d.status = Val(f.status)
    /\ IsNone(f.min_price) \/ d.price >= Val(f.min_price)
    /\ IsNone(f.max_price) \/ d.price <= Val(f.max_price)
    /\ StockCondition(f, thr, d.stock)
    /\ f.tags = <<>> \/ Range(d.tags) \cap Range(f.tags) # {}

Matching(coll, f, thr) == {i \in DOMAIN coll : Matches(f, thr, coll[i])}

Orderings(S) ==
    {l \in [1..Cardinality(S) -> S] : \A i, j \in 1..Cardinality(S) : i # j => l[i] # l[j]}

\* cursor.sort("name", 1): the orders of the ids S ascending by name;
\* documents with equal names come in any order
NameOrders(coll, S) ==
    {l \in Orderings(S) :
        \A i, j \in 1..Len(l) : i < j => ~StrLess(coll[l[j]].name, coll[l[i]].name)}

Min(a, b) == IF a <= b THEN a ELSE b

Max(a, b) == IF a >= b THEN a ELSE b

\* cursor.skip(skip).limit(limit)
Window(l, skip, limit) == SubSeq(l, skip + 1, Min(Len(l), skip + limit))

\* the list search_products returns for the sorted ids l: [] when a
\* document of the window fails Product(**product_data)
db_search_products(coll, l, f) ==
    LET w == Window(l, f.skip, f.limit)
    IN  IF \E k \in 1..Len(w) : ~FieldsValid(coll[w[k]]) THEN <<>>
        ELSE [k \in 1..Len(w) |-> ToProduct(w[k], coll[w[k]])]

(***************************************************************************)
(* get_inventory_summary: the two $group aggregations                      *)
(***************************************************************************)
RECURSIVE SumFn(_)
SumFn(g) ==
    IF DOMAIN g = {} THEN 0
    ELSE LET i == CHOOSE j \in DOMAIN g : TRUE
         IN  g[i] + SumFn([j \in DOMAIN g \ {i} |-> g[j]])

GroupAll_InStockOnly(coll, S, thr) ==
    [total_products |-> SumFn([i \in S |-> IF coll[i].stock > 0 THEN 1 ELSE 0]),
     total_value |-> SumFn([i \in S |-> coll[i].price * coll[i].stock]),
     low_stock_count |-> SumFn([i \in S |-> IF coll[i].stock < thr THEN 1 ELSE 0]),
     out_of_stock_count |-> SumFn([i \in S |-> IF coll[i].stock = 0 THEN 1 ELSE 0])]

\* the $group stage with _id None over the documents with ids S
GroupAll(coll, S, thr) ==
    [total_products |-> SumFn([i \in S |-> 1]),
     total_value |-> SumFn([i \in S |-> coll[i].price * coll[i].stock]),
     low_stock_count |-> SumFn([i \in S |-> IF coll[i].stock <= thr THEN 1 ELSE 0]),
     out_of_stock_count |-> SumFn([i \in S |-> IF coll[i].stock = 0 THEN 1 ELSE 0])]

\* one row of the $group stage by category; avg_price is kept as the pair
\* of the price sum and the count
CategoryRow(coll, c) ==
    LET S == {i \in DOMAIN coll : coll[i].category = c}
    IN  [_id |-> c,
         count |-> SumFn([i \in S |-> 1]),
         total_value |-> SumFn([i \in S |-> coll[i].price * coll[i].stock]),
         avg_price |-> <<SumFn([i \in S |-> coll[i].price]), Cardinality(S)>>]

CategoryRows(coll) == {CategoryRow(coll, coll[i].category) : i \in DOMAIN coll}

CountOrders_Ascending(rows) ==
    {l \in Orderings(rows) :
        \A i, j \in 1..Len(l) : i < j => l[i].count <= l[j].count}

\* {"$sort": {"count": -1}}: rows with equal counts come in any order
CountOrders(rows) ==
    {l \in Orderings(rows) :
        \A i, j \in 1..Len(l) : i < j => l[i].count >= l[j].count}

\* the InventorySummary returned for the category order cats
db_get_inventory_summary(coll, thr, cats) ==
    IF DOMAIN coll # {}
    THEN LET summary == GroupAll(coll, DOMAIN coll, thr)
         IN  [total_products |-> summary.total_products,
              total_value |-> summary.total_value,
              low_stock_products |-> summary.low_stock_count,
              out_of_stock_products |-> summary.out_of_stock_count,
              categories_breakdown |-> cats]
    ELSE [total_products |-> 0, total_value |-> 0, low_stock_products |-> 0,
          out_of_stock_products |-> 0, categories_breakdown |-> <<>>]

(***************************************************************************)
(* State after construction: an empty collection with its unique index on  *)
(* sku, and the configured low-stock threshold.                            *)
(***************************************************************************)
DefaultLowStockThreshold == 10

\* a tool call that runs without interleaving returns its result
Reply(op, args, res) ==
    /\ last' = [op |-> op, args |-> args, res |-> res]
    /\ UNCHANGED calls

Failure_NoFlag(err) == [error |-> err]

Failure(err) == [success |-> FALSE, error |-> err]

Success(data) == [success |-> TRUE, data |-> data]

InitWith(thresholds) ==
    /\ products = EmptyCollection
    /\ nextId = 1
    /\ now = 0
    /\ threshold \in thresholds
    /\ last = [op |-> "start", args |-> <<>>, res |-> Success(<<>>)]
    /\ calls = <<>>

(***************************************************************************)
(* tools/product_tools.py                                                  *)
(***************************************************************************)
create_product(name, price, stock, category, sku, description, tags) ==
    LET args == [name |-> name, price |-> price, stock |-> stock,
                 category |-> category, sku |-> sku,
                 description |-> description, tags |-> tags]
        price_float == ParseFloat(price)
        stock_int == ParseInt(stock)
    IN  /\ now < MaxTime
        /\ UNCHANGED threshold
        /\ IF IsNone(price_float)
           THEN /\ Reply("create_product", args, Failure("invalid_price"))
                /\ UNCHANGED <<products, nextId, now>>
           ELSE IF IsNone(stock_int)
           THEN /\ Reply("create_product", args, Failure("invalid_stock"))
                /\ UNCHANGED <<products, nextId, now>>
           ELSE IF Lower(category) \notin ProductCategory
           THEN /\ Reply("create_product", args, Failure("invalid_category"))
                /\ UNCHANGED <<products, nextId, now>>
           ELSE IF ~ProductCreateValid(name, description, Val(price_float),
                                       Val(stock_int), sku)
           THEN /\ Reply("create_product", args, Failure("internal_error"))
                /\ UNCHANGED <<products, nextId, now>>
           ELSE IF ~SkuFree(products, Val(validate_sku(sku)))
           THEN /\ Reply("create_product", args, Failure("create_failed"))
                /\ UNCHANGED <<products, nextId, now>>
           ELSE \E tl \in TagLists(TagSet(tags)) :
                  LET d == NewDocument(name, description, Val(price_float),
                                       Val(stock_int), Lower(category),
                                       Val(validate_sku(sku)), tl, now + 1)
                      new_product == ToProduct(nextId, d)
                  IN  /\ products' = Insert(products, nextId, d)
                      /\ nextId' = nextId + 1
                      /\ now' = now + 1
                      /\ Reply("create_product", args,
                               Success([id |-> new_product.id,
                                        name |-> new_product.name,
                                        sku |-> new_product.sku,
                                        price |-> new_product.price,
                                        stock |-> new_product.stock,
                                        category |-> new_product.category,
                                        created_at |-> new_product.created_at]))

\* the lookup shared by the tools: by SKU or by id
Lookup(coll, identifier, by_sku) ==
    IF by_sku THEN get_product_by_sku(coll, identifier)
    ELSE get_product_by_id(coll, identifier)

get_product(identifier, by_sku) ==
    LET args == [identifier |-> identifier, by_sku |-> by_sku]
        product == Lookup(products, identifier, by_sku)
    IN  /\ UNCHANGED <<products, nextId, now, threshold>>
        /\ IF ~IsNone(product)
           THEN Reply("get_product", args, Success(Val(product)))
           ELSE Reply("get_product", args, Failure("not_found"))

\* limit=min(max(1, limit), 100); skip keeps its default
ToolFilter(category, status, min_price, max_price, in_stock_only, low_stock_only, limit, tags) ==
    [category |-> IF category = <<>> THEN None ELSE Some(category),
     status |-> IF status = <<>> THEN None ELSE Some(status),
     min_price |-> min_price, max_price |-> max_price,
     in_stock_only |-> in_stock_only, low_stock_only |-> low_stock_only,
     tags |-> tags, limit |-> Min(Max(1, limit), 100), skip |-> 0]

\* ProductCategory(category), ProductStatus(status) and the Field
\* constraints of ProductSearchFilter; FALSE when one raises ValueError
FilterValid(f) ==
    /\ IsNone(f.category) \/ Val(f.category) \in ProductCategory
    /\ IsNone(f.status) \/ Val(f.status) \in ProductStatus
    /\ IsNone(f.min_price) \/ Val(f.min_price) >= 0
    /\ IsNone(f.max_price) \/ Val(f.max_price) > 0
    /\ f.limit >= 1 /\ f.limit <= 1000
    /\ f.skip >= 0

ResultRow(p) ==
    [id |-> p.id, name |-> p.name, sku |-> p.sku, price |-> p.price,
     stock |-> p.stock, category |-> p.category, status |-> p.status]

search_products(category, status, min_price, max_price, in_stock_only, low_stock_only, limit, tags) ==
    LET args == [category |-> category, status |-> status,
                 min_price |-> min_price, max_price |-> max_price,
                 in_stock_only |-> in_stock_only,
                 low_stock_only |-> low_stock_only, limit |-> limit,
                 tags |-> tags]
        f == ToolFilter(category, status, min_price, max_price, in_stock_only,
                        low_stock_only, limit, tags)
    IN  /\ UNCHANGED <<products, nextId, now, threshold>>
        /\ IF ~FilterValid(f)
           THEN Reply("search_products", args, Failure("invalid_parameter"))
           ELSE \E l \in NameOrders(products, Matching(products, f, threshold)) :
                  LET found == db_search_products(products, l, f)
                  IN  Reply("search_products", args,
                            Success([k \in 1..Len(found) |-> ResultRow(found[k])]))

\* the ProductUpdate that update_product fills by attribute assignment
\* (the assignments are not validated)
ToolUpdate(name, description, price, stock, category, status, tags) ==
    [name |-> name,
     description |-> description,
     price |-> IF IsNone(price) THEN None ELSE ParseFloat(Val(price)),
     stock |-> IF IsNone(stock) THEN None ELSE ParseInt(Val(stock)),
     category |-> IF IsNone(category) THEN None ELSE Some(Lower(Val(category))),
     status |-> IF IsNone(status) THEN None ELSE Some(Lower(Val(status))),
     tags |-> tags]

update_product(identifier, name, description, price, stock, category, status, tags, by_sku) ==
    LET args == [identifier |-> identifier, name |-> name,
                 description |-> description, price |-> price,
                 stock |-> stock, category |-> category, status |-> status,
                 tags |-> tags, by_sku |-> by_sku]
        product == Lookup(products, identifier, by_sku)
        update_data == ToolUpdate(name, description, price, stock, category,
                                  status, tags)
    IN  /\ now < MaxTime
        /\ UNCHANGED <<nextId, threshold>>
        /\ IF IsNone(product)
           THEN /\ Reply("update_product", args, Failure("not_found"))
                /\ UNCHANGED <<products, now>>
           ELSE IF ~IsNone(price) /\ IsNone(ParseFloat(Val(price)))
           THEN /\ Reply("update_product", args, Failure("invalid_price"))
                /\ UNCHANGED <<products, now>>
           ELSE IF ~IsNone(stock) /\ IsNone(ParseInt(Val(stock)))
           THEN /\ Reply("update_product", args, Failure("invalid_stock"))
                /\ UNCHANGED <<products, now>>
           ELSE IF ~IsNone(category) /\ Lower(Val(category)) \notin ProductCategory
           THEN /\ Reply("update_product", args, Failure("invalid_category"))
                /\ UNCHANGED <<products, now>>
           ELSE IF ~IsNone(status) /\ Lower(Val(status)) \notin ProductStatus
           THEN /\ Reply("update_product", args, Failure("invalid_status"))
                /\ UNCHANGED <<products, now>>
           ELSE LET id == Val(product).id
                    updated_product ==
                        db_update_product(products, id, update_data, now + 1)
                IN  /\ products' = UpdatedCollection(products, id, update_data, now + 1)
                    /\ now' = IF UpdateDictEmpty(update_data) THEN now ELSE now + 1
                    /\ IF ~IsNone(updated_product)
                       THEN Reply("update_product", args,
                                  Success([id |-> Val(updated_product).id,
                                           name |-> Val(updated_product).name,
                                           sku |-> Val(updated_product).sku,
                                           price |-> Val(updated_product).price,
                                           stock |-> Val(updated_product).stock,
                                           category |-> Val(updated_product).category,
                                           status |-> Val(updated_product).status,
                                           updated_at |-> Val(updated_product).updated_at]))
                       ELSE Reply("update_product", args, Failure("update_failed"))

\* if not confirm: ...
ConfirmationMissing_Ignored(confirm) == FALSE

ConfirmationMissing(confirm) == ~confirm

delete_product(identifier, by_sku, confirm) ==
    LET args == [identifier |-> identifier, by_sku |-> by_sku, confirm |-> confirm]
        product == Lookup(products, identifier, by_sku)
    IN  /\ UNCHANGED <<nextId, now, threshold>>
        /\ IF ConfirmationMissing(confirm)
           THEN /\ Reply("delete_product", args, Failure("confirmation_required"))
                /\ UNCHANGED products
           ELSE IF IsNone(product)
           THEN /\ Reply("delete_product", args, Failure("not_found"))
                /\ UNCHANGED products
           ELSE /\ products' = DeletedCollection(products, Val(product).id)
                /\ IF db_delete_product(products, Val(product).id)
                   THEN Reply("delete_product", args,
                              Success([name |-> Val(product).name,
                                       sku |-> Val(product).sku]))
                   ELSE Reply("delete_product", args, Failure("delete_failed"))

(***************************************************************************)
(* tools/inventory_tools.py                                                *)
(***************************************************************************)
get_inventory_summary ==
    /\ UNCHANGED <<products, nextId, now, threshold>>
    /\ \E cats \in CountOrders(CategoryRows(products)) :
         LET summary == db_get_inventory_summary(products, threshold, cats)
         IN  Reply("get_inventory_summary", <<>>,
                   Success([total_products |-> summary.total_products,
                            total_inventory_value |-> summary.total_value,
                            low_stock_alerts |-> summary.low_stock_products,
                            out_of_stock_alerts |-> summary.out_of_stock_products,
                            categories_breakdown |-> summary.categories_breakdown,
                            stock_health |-> IF summary.low_stock_products < 5
                                             THEN "healthy" ELSE "needs_attention",
                            availability_rate |->
                                <<summary.total_products - summary.out_of_stock_products,
                                  Max(summary.total_products, 1)>>,
                            low_stock_threshold |-> threshold]))

update_stock(identifier, new_stock, by_sku) ==
    LET args == [identifier |-> identifier, new_stock |-> new_stock,
                 by_sku |-> by_sku]
        stock_int == ParseInt(new_stock)
        product == Lookup(products, identifier, by_sku)
    IN  /\ now < MaxTime
        /\ UNCHANGED <<nextId, threshold>>
        /\ IF IsNone(stock_int)
           THEN /\ Reply("update_stock", args, Failure("invalid_stock"))
                /\ UNCHANGED <<products, now>>
           ELSE IF Val(stock_int) < 0
           THEN /\ Reply("update_stock", args, Failure("negative_stock"))
                /\ UNCHANGED <<products, now>>
           ELSE IF IsNone(product)
           THEN /\ Reply("update_stock", args, Failure("not_found"))
                /\ UNCHANGED <<products, now>>
           ELSE LET id == Val(product).id
                    old_stock == Val(product).stock
                    update_data == [EmptyUpdate EXCEPT !.stock = stock_int]
                    updated_product ==
                        db_update_product(products, id, update_data, now + 1)
                    change == Val(stock_int) - old_stock
                IN  /\ products' = UpdatedCollection(products, id, update_data, now + 1)
                    /\ now' = now + 1
                    /\ IF ~IsNone(updated_product)
                       THEN Reply("update_stock", args,
                                  Success([name |-> Val(updated_product).name,
                                           sku |-> Val(updated_product).sku,
                                           id |-> Val(updated_product).id,
                                           old_stock |-> old_stock,
                                           new_stock |-> Val(stock_int),
                                           change |-> change,
                                           change_type |->
                                               IF change > 0 THEN "increased"
                                               ELSE IF change < 0 THEN "decreased"
                                               ELSE "unchanged",
                                           alerts |->
                                               IF Val(stock_int) = 0 THEN <<"CRITICAL">>
                                               ELSE IF Val(stock_int) <= threshold
                                               THEN <<"WARNING">>
                                               ELSE <<>>,
                                           updated_at |-> Val(updated_product).updated_at]))
                       ELSE Reply("update_stock", args, Failure("update_failed"))

(***************************************************************************)
(* Specification Spec: creation, update, stock update, deletion and lookup *)
(* with prices and stocks on both sides of their limits and SKUs that      *)
(* differ in case.                                                         *)
(***************************************************************************)
Names == {<<"a">>}

PriceStrings == {<<"0">>, <<"1">>}

StockStrings == {<<"-", "1">>, <<"0">>, <<"1">>}

SkuStrings == {<<"a">>, <<"A">>, <<"b">>}

\* identifier and by_sku of a call: an id, an id never assigned, a SKU in
\* another case than stored, and a SKU passed as an id
Targets ==
    {<<IdStr(1), FALSE>>, <<IdStr(2), FALSE>>, <<<<"a">>, TRUE>>,
     <<<<"a">>, FALSE>>}

\* price and stock of an update: no field, or one of the two
Changes ==
    {<<None, None>>} \cup {<<Some(x), None>> : x \in PriceStrings}
        \cup {<<None, Some(x)>> : x \in StockStrings}

Init == InitWith({1})

Next ==
    \/ \E name \in Names, price \in PriceStrings, stock \in StockStrings,
          sku \in SkuStrings :
         create_product(name, price, stock, BOOKS, sku, <<>>, <<>>)
    \/ \E target \in Targets :
         get_product(target[1], target[2])
    \/ \E target \in Targets, change \in Changes :
         update_product(target[1], None, None, change[1], change[2], None,
                        None, None, target[2])
    \/ \E target \in Targets, confirm \in BOOLEAN :
         delete_product(target[1], target[2], confirm)
    \/ \E target \in Targets, new_stock \in StockStrings :
         update_stock(target[1], new_stock, target[2])

Spec == Init /\ [][Next]_vars

(***************************************************************************)
(* Properties of Spec                                                      *)
(***************************************************************************)
CreateStep == last'.op = "create_product" /\ last' # last

\* the product a call with this identifier resolves to, as a set of _ids
Resolved(coll, identifier, by_sku) ==
    LET product == Lookup(coll, identifier, by_sku)
    IN  IF IsNone(product) THEN {} ELSE {Val(ObjectId(Val(product).id))}

\* C1: after any sequence of create_product, update_product and
\* update_stock calls every stored product has price > 0 and stock >= 0
\* (a call with a non-positive price or a negative stock changes nothing).
C1_PriceStockRejected ==
    \A i \in DOMAIN products : products[i].price > 0 /\ products[i].stock >= 0

\* C2: no two stored products have the same SKU, and a create whose SKU is
\* already stored fails and leaves the collection as it was.
C2_SkuUnique ==
    /\ [](\A i, j \in DOMAIN products :
             i # j => products[i].sku # products[j].sku)
    /\ [][(CreateStep /\ \E i \in DOMAIN products :
                            products[i].sku = last'.args.sku)
          => (products' = products /\ ~last'.res.success)]_vars

C2_Witness ==
    /\ last.op = "create_product"
    /\ ~last.res.success
    /\ last.res.error = "create_failed"
    /\ \E i \in DOMAIN products : products[i].sku = last.args.sku

\* C3: create_product with a SKU that differs only in letter case from a
\* stored SKU returns a failure, stores no new product and leaves the
\* existing product as it was.
C3_CaseDuplicateRejected ==
    [][(CreateStep /\ \E i \in DOMAIN products :
                         /\ products[i].sku # last'.args.sku
                         /\ Upper(products[i].sku) = Upper(last'.args.sku))
       => (products' = products /\ ~last'.res.success)]_vars

C3_Witness ==
    /\ last.op = "create_product"
    /\ ~last.res.success
    /\ last.res.error = "create_failed"
    /\ \E i \in DOMAIN products :
         /\ products[i].sku # last.args.sku
         /\ Upper(products[i].sku) = Upper(last.args.sku)

\* C4: delete_product without confirm removes nothing, whatever the
\* identifier and by_sku, and is rejected for the missing confirmation
\* whether or not the identifier resolves to a product.
C4_DeleteNeedsConfirm ==
    [][(last'.op = "delete_product" /\ ~last'.args.confirm)
       => (products' = products
           /\ last'.res = Failure("confirmation_required"))]_vars

C4_Witness ==
    /\ last.op = "delete_product"
    /\ ~last.args.confirm
    /\ ~last.res.success
    /\ Resolved(products, last.args.identifier, last.args.by_sku) # {}

\* a call that specifies only a stock, with a stock that is accepted
StockOnlyCall(l) ==
    \/ /\ l.op = "update_stock"
       /\ ~IsNone(ParseInt(l.args.new_stock))
       /\ Val(ParseInt(l.args.new_stock)) >= 0
    \/ /\ l.op = "update_product"
       /\ IsNone(l.args.name) /\ IsNone(l.args.description)
       /\ IsNone(l.args.price) /\ IsNone(l.args.category)
       /\ IsNone(l.args.status) /\ IsNone(l.args.tags)
       /\ ~IsNone(l.args.stock)
       /\ ~IsNone(ParseInt(Val(l.args.stock)))
       /\ Val(ParseInt(Val(l.args.stock))) >= 0

\* C5: an update of an existing product that specifies only stock leaves
\* its name, price, category and tags as they were and stamps updated_at;
\* every other stored product is unchanged.
C5_StockOnlyFrame ==
    [][StockOnlyCall(last') =>
       \A i \in Resolved(products, last'.args.identifier, last'.args.by_sku) :
            /\ DOMAIN products' = DOMAIN products
            /\ \A j \in DOMAIN products \ {i} : products'[j] = products[j]
            /\ products'[i].name = products[i].name
            /\ products'[i].price = products[i].price
            /\ products'[i].category = products[i].category
            /\ products'[i].tags = products[i].tags
            /\ products'[i].updated_at = now'
            /\ products'[i].updated_at > products[i].updated_at]_vars

C5_Witness ==
    /\ last.op = "update_stock"
    /\ last.res.success
    /\ last.res.data.change # 0
    /\ Cardinality(DOMAIN products) >= 2
    /\ \E i \in DOMAIN products :
         products[i].updated_at = now /\ products[i].created_at < now

\* C6: as long as a product is stored its id, sku and created_at do not
\* change, and update_product and update_stock neither add nor remove ids.
C6_IdentityImmutable ==
    [][/\ \A i \in DOMAIN products \cap DOMAIN products' :
            /\ products'[i].sku = products[i].sku
            /\ products'[i].created_at = products[i].created_at
       /\ last'.op \in {"update_product", "update_stock"}
            => DOMAIN products' = DOMAIN products
       /\ \A i \in DOMAIN products' \ DOMAIN products : i >= nextId]_vars

C6_Witness ==
    /\ last.op = "update_product"
    /\ \E i \in DOMAIN products :
         /\ products[i].updated_at = now
         /\ products[i].created_at < now

(***************************************************************************)
(* Specification SpecInventory: a catalogue of up to three products with   *)
(* stocks on both sides of the low-stock threshold, searched with every    *)
(* combination of the stock flags and summarised.                          *)
(***************************************************************************)
\* name, sku, price and stock of the products created
Fixtures ==
    {<<<<"a">>, <<"s", "1">>, <<"1", "0">>, <<"1">>>>,
     <<<<"b">>, <<"s", "2">>, <<"2", "0">>, <<"2">>>>,
     <<<<"c">>, <<"s", "3">>, <<"3", "0">>, <<"0">>>>}

InitInventory == InitWith({1, DefaultLowStockThreshold})

NextInventory ==
    \/ \E fx \in Fixtures :
         create_product(fx[1], fx[3], fx[4], BOOKS, fx[2], <<>>, <<>>)
    \/ \E sku \in {<<"s", "1">>, <<"s", "2">>}, new_stock \in {<<"0">>, <<"2">>} :
         update_stock(sku, new_stock, TRUE)
    \/ \E change \in {<<Some(<<"0">>), None>>, <<None, Some(<<"-", "1">>)>>} :
         update_product(<<"s", "1">>, None, None, change[1], change[2], None,
                        None, None, TRUE)
    \/ \E sku \in {<<"s", "1">>, <<"s", "3">>} :
         delete_product(sku, TRUE, TRUE)
    \/ \E max_price \in {None, Some(20)}, in_stock_only \in BOOLEAN,
          low_stock_only \in BOOLEAN, limit \in {1, 20} :
         search_products(<<>>, <<>>, None, max_price, in_stock_only,
                         low_stock_only, limit, <<>>)
    \/ get_inventory_summary

SpecInventory == InitInventory /\ [][NextInventory]_vars

(***************************************************************************)
(* Properties of SpecInventory                                             *)
(***************************************************************************)
SearchReturned == last.op = "search_products" /\ last.res.success

\* the stored documents a search has returned
ReturnedIds == {Val(ObjectId(last.res.data[k].id)) : k \in 1..Len(last.res.data)}

\* the filters of the last search other than the stock flags
OtherFiltersMatch(d) ==
    IsNone(last.args.max_price) \/ d.price <= Val(last.args.max_price)

\* C7: a search with in_stock_only=true returns no product whose stock is 0
C7_InStockOnly ==
    (SearchReturned /\ last.args.in_stock_only)
    => /\ \A k \in 1..Len(last.res.data) : last.res.data[k].stock # 0
       /\ \A i \in ReturnedIds : i \in DOMAIN products /\ products[i].stock # 0

C7_Witness ==
    /\ SearchReturned
    /\ last.args.in_stock_only
    /\ Len(last.res.data) >= 1
    /\ \E i \in DOMAIN products :
         products[i].stock = 0 /\ OtherFiltersMatch(products[i])

\* C8 as stated: a search with low_stock_only=true, whatever the other
\* filter settings, returns no product whose stock exceeds the threshold
C8_LowStockOnly_AnyFilter ==
    (SearchReturned /\ last.args.low_stock_only)
    => \A k \in 1..Len(last.res.data) : last.res.data[k].stock <= threshold

\* C8 amended: a search with low_stock_only=true and in_stock_only=false
\* returns no product whose stock exceeds the threshold
C8_LowStockOnly ==
    (SearchReturned /\ last.args.low_stock_only /\ ~last.args.in_stock_only)
    => /\ \A k \in 1..Len(last.res.data) : last.res.data[k].stock <= threshold
       /\ \A i \in ReturnedIds :
            i \in DOMAIN products /\ products[i].stock <= threshold

C8_Witness ==
    /\ SearchReturned
    /\ last.args.low_stock_only /\ ~last.args.in_stock_only
    /\ Len(last.res.data) >= 1
    /\ \E i \in DOMAIN products :
         products[i].stock > threshold /\ OtherFiltersMatch(products[i])

\* C9: with both in_stock_only and low_stock_only set the search succeeds
\* and returns products with stock > 0 only, whether or not their stock
\* exceeds the threshold: as many of them as the limit allows when all of
\* them can be read back
C9_InStockPrecedence ==
    (last.op = "search_products" /\ last.args.in_stock_only
        /\ last.args.low_stock_only)
    => LET expected == {i \in DOMAIN products :
                           products[i].stock > 0 /\ OtherFiltersMatch(products[i])}
       IN  /\ last.res.success
           /\ ReturnedIds \subseteq expected
           /\ (\A i \in expected : FieldsValid(products[i]))
                => Len(last.res.data)
                     = Min(Cardinality(expected), Min(Max(1, last.args.limit), 100))

C9_Witness ==
    /\ SearchReturned
    /\ last.args.in_stock_only /\ last.args.low_stock_only
    /\ \E i \in ReturnedIds : products[i].stock > threshold
    /\ \E i \in DOMAIN products : products[i].stock <= threshold

RECURSIVE InventoryValue(_)
InventoryValue(S) ==
    IF S = {} THEN 0
    ELSE LET i == CHOOSE j \in S : TRUE
         IN  products[i].price * products[i].stock + InventoryValue(S \ {i})

\* the fixture: three products priced 10, 20, 30 with stock 1, 2, 0
FixtureStored ==
    /\ Cardinality(DOMAIN products) = 3
    /\ \A ps \in {<<10, 1>>, <<20, 2>>, <<30, 0>>} :
         \E i \in DOMAIN products :
            products[i].price = ps[1] /\ products[i].stock = ps[2]

\* C10: the inventory summary reports the number of stored products, the
\* sum of price * stock over them, the number with stock <= threshold and
\* the number with stock = 0 (50 and 1 on the fixture)
C10_InventorySummary ==
    last.op = "get_inventory_summary"
    => /\ last.res.success
       /\ last.res.data.total_products = Cardinality(DOMAIN products)
       /\ last.res.data.total_inventory_value = InventoryValue(DOMAIN products)
       /\ last.res.data.low_stock_alerts
            = Cardinality({i \in DOMAIN products : products[i].stock <= threshold})
       /\ last.res.data.out_of_stock_alerts
            = Cardinality({i \in DOMAIN products : products[i].stock = 0})
       /\ FixtureStored
            => /\ last.res.data.total_inventory_value = 50
               /\ last.res.data.out_of_stock_alerts = 1

C10_Witness ==
    /\ last.op = "get_inventory_summary"
    /\ FixtureStored
    /\ last.res.data.total_inventory_value = 50
    /\ last.res.data.low_stock_alerts = 2
    /\ threshold = 1

(***************************************************************************)
(* Specification SpecFields: products created and updated with SKUs,       *)
(* categories, statuses, descriptions and tags in raw and normalised       *)
(* spellings, read back and searched by category.                          *)
(***************************************************************************)
\* sku, category, description and tags of the products created
FieldInputs ==
    {<<<<"a">>, BOOKS, <<>>, <<>>>>,
     <<<<"a", "b", "-", "c", "d", "_", "1", "2">>, <<"B", "o", "o", "k", "s">>,
       <<"d">>, <<<<" ", "X", " ">>, <<"x">>>>>>,
     <<<<"A", "B", " ", "C", "D">>, BOOKS, <<>>, <<>>>>,
     <<<<"a", "\n">>, FOOD, <<>>, <<<<" ">>, <<"y">>>>>>,
     <<<<" ", "a">>, BOOKS, <<>>, <<>>>>,
     <<<<"b">>, <<"t", "o", "y", "z">>, <<>>, <<>>>>}

\* name, description, category, status and tags of an update
FieldChanges ==
    {<<None, None, None, None, None>>,
     <<Some(<<"b">>), None, None, None, None>>,
     <<None, Some(<<"e">>), None, None, None>>,
     <<None, None, Some(<<"F", "o", "o", "d">>), None, None>>,
     <<None, None, Some(<<"t", "o", "y", "z">>), None, None>>,
     <<None, None, None, Some(<<"D", "r", "a", "f", "t">>), None>>,
     <<None, None, None, Some(<<"o", "n">>), None>>,
     <<None, None, None, None, Some(<<<<" ">>, <<"X">>>>)>>,
     <<None, None, None, None, Some(<<<<"x">>>>)>>}

FieldTargets == {<<IdStr(1), FALSE>>, <<<<"a">>, TRUE>>}

SearchCategories ==
    {<<>>, BOOKS, <<"B", "o", "o", "k", "s">>, <<"t", "o", "y", "z">>}

InitFields == InitWith({1})

NextFields ==
    \/ \E fx \in FieldInputs :
         create_product(<<"a">>, <<"1">>, <<"1">>, fx[2], fx[1], fx[3], fx[4])
    \/ \E target \in FieldTargets \cup {<<IdStr(2), FALSE>>} :
         get_product(target[1], target[2])
    \/ \E target \in FieldTargets, ch \in FieldChanges :
         update_product(target[1], ch[1], ch[2], None, None, ch[3], ch[4],
                        ch[5], target[2])
    \/ \E category \in SearchCategories :
         search_products(category, <<>>, None, None, FALSE, FALSE, 20, <<>>)

SpecFields == InitFields /\ [][NextFields]_vars

(***************************************************************************)
(* Properties of SpecFields                                                *)
(***************************************************************************)
\* the document a successful create_product call has just stored
Created == products[Val(ObjectId(last.res.data.id))]

CreateSucceeded == last.op = "create_product" /\ last.res.success

\* C11: create(P) followed by get_by_id(returned id) yields an entity equal
\* to P in name, description, price, stock, category, sku and tags, P being
\* the validated Create entity (sku in upper case, tags as a set).
C11_RoundTrip ==
    CreateSucceeded =>
        LET P == last.args
            got == get_product_by_id(products, last.res.data.id)
        IN  /\ ~IsNone(got)
            /\ Val(got).name = P.name
            /\ Val(got).description = P.description
            /\ Val(got).price = Val(ParseFloat(P.price))
            /\ Val(got).stock = Val(ParseInt(P.stock))
            /\ Val(got).category = Lower(P.category)
            /\ Val(got).sku = Val(validate_sku(P.sku))
            /\ Val(got).tags = TagSet(P.tags)

C11_Witness ==
    /\ CreateSucceeded
    /\ last.args.description # <<>>
    /\ last.args.tags # <<>>
    /\ last.args.category # Lower(last.args.category)
    /\ ~IsNone(get_product_by_id(products, last.res.data.id))

\* C12: after a successful create_product the stored sku is the input SKU
\* trimmed and in upper case, made of letters, digits, "_" and "-" only,
\* and the stored status is active.
C12_SkuTrimmedUpper ==
    CreateSucceeded =>
        /\ Created.sku = Upper(Strip(last.args.sku))
        /\ Range(Created.sku) \subseteq SkuChars
        /\ Created.status = ACTIVE

\* C13: after any sequence of create_product and update_product calls the
\* stored tags of every product are non-blank, trimmed, in lower case and
\* without repetition.
C13_TagsNormalised ==
    \A i \in DOMAIN products :
        LET tags == products[i].tags
        IN  /\ \A k \in 1..Len(tags) :
                  /\ Strip(tags[k]) # <<>>
                  /\ tags[k] = Lower(Strip(tags[k]))
            /\ Cardinality(Range(tags)) = Len(tags)

\* C14: normalising a list of normalised tags gives the same set of tags:
\* for the tags x of a create_product call and every list made of
\* validate_tags(x), validate_tags of that list is validate_tags(x).
C14_TagsIdempotent ==
    CreateSucceeded =>
        /\ \A tl \in TagLists(TagSet(last.args.tags)) :
              TagSet(tl) = TagSet(last.args.tags)
        /\ TagSet(Created.tags) = Range(Created.tags)

C14_Witness ==
    /\ CreateSucceeded
    /\ Cardinality(TagSet(last.args.tags)) < Len(last.args.tags)
    /\ TagSet(last.args.tags) # Range(last.args.tags)
    /\ TagSet(last.args.tags) # {}

\* the category argument of the latest call, None when the call has none
CategoryArgument ==
    IF last.op = "create_product" THEN Some(last.args.category)
    ELSE IF last.op = "update_product" THEN last.args.category
    ELSE IF last.op = "search_products" /\ last.args.category # <<>>
    THEN Some(last.args.category)
    ELSE None

CategoryRejected ==
    /\ ~last.res.success
    /\ last.res.error \in {"invalid_category", "invalid_parameter"}

\* C15: create_product, update_product and search_products look the
\* category up without regard to letter case: a category that is an
\* accepted value in some letter case is never rejected, and any other
\* category is rejected with the failure that lists the accepted values.
C15_CategoryAnyCase ==
    ~IsNone(CategoryArgument) =>
        /\ Lower(Val(CategoryArgument)) \in ProductCategory => ~CategoryRejected
        /\ CategoryRejected => last.res.error = "invalid_category"

(***************************************************************************)
(* Properties of Spec: update, delete and malformed identifiers            *)
(***************************************************************************)
\* C16: update_product on an existing product, with arguments that parse,
\* returns the entity (refreshed, or unmodified when no field is given):
\* it is never reported as a failed update.
C16_UpdateReturnsEntity ==
    ~(/\ last.op = "update_product"
      /\ ~last.res.success
      /\ last.res.error = "update_failed")

DeleteStep == last'.op = "delete_product" /\ last' # last

NoFilter == ToolFilter(<<>>, <<>>, None, None, FALSE, FALSE, 20, <<>>)

\* C17: delete_product reports success exactly when one document was
\* removed; the removed product is then found by neither id nor SKU,
\* matches no search and is not counted by the inventory summary, and every
\* other product is stored as before.
C17_DeleteRemovesOne ==
    [][DeleteStep =>
         LET gone == DOMAIN products \ DOMAIN products'
         IN  /\ last'.res.success <=> Cardinality(gone) = 1
             /\ Cardinality(gone) <= 1
             /\ DOMAIN products' \subseteq DOMAIN products
             /\ \A i \in DOMAIN products' : products'[i] = products[i]
             /\ \A i \in gone :
                  /\ gone = Resolved(products, last'.args.identifier,
                                     last'.args.by_sku)
                  /\ IsNone(get_product_by_id(products', IdStr(i)))
                  /\ IsNone(get_product_by_sku(products', products[i].sku))
                  /\ i \notin Matching(products', NoFilter, threshold)
                  /\ db_get_inventory_summary(products', threshold, <<>>).total_products
                       = Cardinality(DOMAIN products) - 1]_vars

C17_Witness ==
    /\ last.op = "delete_product"
    /\ last.res.success
    /\ DOMAIN products # {}
    /\ IsNone(Lookup(products, last.args.identifier, last.args.by_sku))

MalformedCall(l) ==
    /\ l.op \in {"get_product", "update_product", "delete_product", "update_stock"}
    /\ ~l.args.by_sku
    /\ l.args.identifier \notin {IdStr(i) : i \in 0..99}

\* C18: get_product_by_id, update_product and delete_product of the gateway
\* given an identifier that is not an ObjectId return None, None and false
\* and leave the collection as it was; a tool called with such an
\* identifier returns a failure and changes nothing.
C18_MalformedIdNotFound ==
    /\ [](MalformedCall(last) =>
            LET id == last.args.identifier
                u == [EmptyUpdate EXCEPT !.stock = Some(1)]
            IN  /\ ~last.res.success
                /\ last.res.error \in {"not_found", "confirmation_required",
                                       "invalid_stock", "negative_stock"}
                /\ IsNone(get_product_by_id(products, id))
                /\ IsNone(db_update_product(products, id, u, now + 1))
                /\ IsNone(db_update_product(products, id, EmptyUpdate, now + 1))
                /\ UpdatedCollection(products, id, u, now + 1) = products
                /\ ~db_delete_product(products, id)
                /\ DeletedCollection(products, id) = products)
    /\ [][(MalformedCall(last') /\ last' # last) => products' = products]_vars

C18_Witness ==
    /\ MalformedCall(last)
    /\ last.op = "delete_product"
    /\ last.args.confirm
    /\ DOMAIN products # {}

(***************************************************************************)
(* Tool calls taken one store request at a time, numbered in the order in  *)
(* which they start.  A call c of calls is at                              *)
(* "write" or "insert" (its next request is the write), at "refresh" (the  *)
(* write is done, the entity is read back next) or "done" (res returned);  *)
(* modified tells whether its update_one had modified_count > 0.           *)
(***************************************************************************)
\* a call starts: it is the next of calls
Record(r) ==
    /\ Len(calls) < MaxCalls
    /\ calls' = Append(calls, r)

Return(c, res) == calls' = [calls EXCEPT ![c].pc = "done", ![c].res = res]

\* update_product up to the request before update_one: the lookup, then
\* the arguments are parsed into the ProductUpdate
lookup_update_product(identifier, name, description, price, stock, category, status, tags, by_sku) ==
    LET args == [identifier |-> identifier, name |-> name,
                 description |-> description, price |-> price,
                 stock |-> stock, category |-> category, status |-> status,
                 tags |-> tags, by_sku |-> by_sku]
        product == Lookup(products, identifier, by_sku)
        call == [op |-> "update_product", args |-> args, pc |-> "done",
                 res |-> None]
    IN  /\ UNCHANGED <<products, nextId, now, threshold, last>>
        /\ IF IsNone(product)
           THEN Record([call EXCEPT !.res = Failure("not_found")])
           ELSE IF ~IsNone(price) /\ IsNone(ParseFloat(Val(price)))
           THEN Record([call EXCEPT !.res = Failure("invalid_price")])
           ELSE IF ~IsNone(stock) /\ IsNone(ParseInt(Val(stock)))
           THEN Record([call EXCEPT !.res = Failure("invalid_stock")])
           ELSE IF ~IsNone(category) /\ Lower(Val(category)) \notin ProductCategory
           THEN Record([call EXCEPT !.res = Failure("invalid_category")])
           ELSE IF ~IsNone(status) /\ Lower(Val(status)) \notin ProductStatus
           THEN Record([call EXCEPT !.res = Failure("invalid_status")])
           ELSE Record([op |-> "update_product", args |-> args,
                           pc |-> "write", res |-> None,
                           modified |-> FALSE, product |-> Val(product),
                           update_data |-> ToolUpdate(name, description, price,
                                                      stock, category, status,
                                                      tags)])

\* update_stock up to the request before update_one
lookup_update_stock(identifier, new_stock, by_sku) ==
    LET args == [identifier |-> identifier, new_stock |-> new_stock,
                 by_sku |-> by_sku]
        stock_int == ParseInt(new_stock)
        product == Lookup(products, identifier, by_sku)
        call == [op |-> "update_stock", args |-> args, pc |-> "done",
                 res |-> None]
    IN  /\ UNCHANGED <<products, nextId, now, threshold, last>>
        /\ IF IsNone(stock_int)
           THEN Record([call EXCEPT !.res = Failure("invalid_stock")])
           ELSE IF Val(stock_int) < 0
           THEN Record([call EXCEPT !.res = Failure("negative_stock")])
           ELSE IF IsNone(product)
           THEN Record([call EXCEPT !.res = Failure("not_found")])
           ELSE Record([op |-> "update_stock", args |-> args,
                           pc |-> "write", res |-> None,
                           modified |-> FALSE, product |-> Val(product),
                           update_data |-> [EmptyUpdate EXCEPT !.stock = stock_int]])

\* the result update_product and update_stock build from what
\* DatabaseManager.update_product returned
UpdateResult(call, updated_product) ==
    IF IsNone(updated_product) THEN Failure("update_failed")
    ELSE IF call.op = "update_product"
    THEN Success([id |-> Val(updated_product).id,
                  name |-> Val(updated_product).name,
                  sku |-> Val(updated_product).sku,
                  price |-> Val(updated_product).price,
                  stock |-> Val(updated_product).stock,
                  category |-> Val(updated_product).category,
                  status |-> Val(updated_product).status,
                  updated_at |-> Val(updated_product).updated_at])
    ELSE LET stock_int == Val(call.update_data.stock)
             old_stock == call.product.stock
             change == stock_int - old_stock
         IN  Success([name |-> Val(updated_product).name,
                      sku |-> Val(updated_product).sku,
                      id |-> Val(updated_product).id,
                      old_stock |-> old_stock,
                      new_stock |-> stock_int,
                      change |-> change,
                      change_type |-> IF change > 0 THEN "increased"
                                      ELSE IF change < 0 THEN "decreased"
                                      ELSE "unchanged",
                      alerts |-> IF stock_int = 0 THEN <<"CRITICAL">>
                                 ELSE IF stock_int <= threshold THEN <<"WARNING">>
                                 ELSE <<>>,
                      updated_at |-> Val(updated_product).updated_at])

\* DatabaseManager.update_product up to update_one: without fields the
\* entity is read and returned; with modified_count 0 None is returned
write_update(c) ==
    /\ c \in DOMAIN calls
    /\ calls[c].pc = "write"
    /\ LET call == calls[c]
           id == call.product.id
           u == call.update_data
       IN  /\ UNCHANGED <<nextId, threshold, last>>
           /\ IF UpdateDictEmpty(u)
              THEN /\ UNCHANGED <<products, now>>
                   /\ Return(c, UpdateResult(call, get_product_by_id(products, id)))
              ELSE /\ now < MaxTime
                   /\ now' = now + 1
                   /\ products' = UpdatedCollection(products, id, u, now + 1)
                   /\ IF products' # products
                      THEN calls' = [calls EXCEPT ![c].pc = "refresh",
                                                  ![c].modified = TRUE]
                      ELSE Return(c, UpdateResult(call, None))

\* DatabaseManager.update_product after update_one: the entity is read
\* back and the tool returns
refresh_update(c) ==
    /\ c \in DOMAIN calls
    /\ calls[c].pc = "refresh"
    /\ calls[c].op \in {"update_product", "update_stock"}
    /\ UNCHANGED <<products, nextId, now, threshold, last>>
    /\ Return(c, UpdateResult(calls[c],
                              get_product_by_id(products, calls[c].product.id)))

(***************************************************************************)
(* Specification SpecRace: updates of a product taken one store request at *)
(* a time, while products are created and deleted.                         *)
(***************************************************************************)
RaceSkus == {<<"a">>, <<"b">>}

RaceTargets == {<<<<"a">>, TRUE>>}

RacePrices == {None, Some(<<"2">>)}

RaceStocks == {<<"2">>}

InitRace == InitWith({1})

NextRace ==
    \/ \E sku \in RaceSkus :
         create_product(<<"a">>, <<"1">>, <<"1">>, BOOKS, sku, <<>>, <<>>)
    \/ delete_product(<<"a">>, TRUE, TRUE)
    \/ \E target \in RaceTargets, price \in RacePrices :
         lookup_update_product(target[1], None, None, price, None, None,
                               None, None, target[2])
    \/ \E new_stock \in RaceStocks :
         lookup_update_stock(<<"a">>, new_stock, TRUE)
    \/ \E c \in 1..MaxCalls : write_update(c)
    \/ \E c \in 1..MaxCalls : refresh_update(c)

SpecRace == InitRace /\ [][NextRace]_vars

(***************************************************************************)
(* Properties of SpecRace                                                  *)
(***************************************************************************)
\* the _id the update call c looked up
TargetOf(c) == Val(ObjectId(calls[c].product.id))

\* call c sends its update_one
WriteStep(c) ==
    /\ c \in DOMAIN calls
    /\ calls[c].pc = "write"
    /\ calls'[c].pc # "write"

\* C19: when the product an update_product or update_stock call looked up
\* has been deleted before the call's write, the write changes nothing
\* (the product is not stored again, no other product is modified) and the
\* call returns a failed update.
C19_WriteAfterDelete ==
    [][\A c \in DOMAIN calls :
         (WriteStep(c) /\ TargetOf(c) \notin DOMAIN products) =>
             /\ products' = products
             /\ calls'[c].pc = "done"
             /\ calls'[c].res = Failure("update_failed")]_vars

C19_Witness ==
    \E c \in DOMAIN calls :
        /\ calls[c].pc = "done"
        /\ calls[c].res = Failure("update_failed")
        /\ ~UpdateDictEmpty(calls[c].update_data)
        /\ ~calls[c].modified
        /\ TargetOf(c) \notin DOMAIN products
        /\ DOMAIN products # {}
        /\ last.op = "create_product"

(***************************************************************************)
(* create_product taken one store request at a time                        *)
(***************************************************************************)
\* create_product up to the request before insert_one: the arguments are
\* parsed and the ProductCreate is built
begin_create_product(name, price, stock, category, sku, description, tags) ==
    LET args == [name |-> name, price |-> price, stock |-> stock,
                 category |-> category, sku |-> sku,
                 description |-> description, tags |-> tags]
        price_float == ParseFloat(price)
        stock_int == ParseInt(stock)
        call == [op |-> "create_product", args |-> args, pc |-> "done",
                 res |-> None]
    IN  /\ UNCHANGED <<products, nextId, now, threshold, last>>
        /\ IF IsNone(price_float)
           THEN Record([call EXCEPT !.res = Failure("invalid_price")])
           ELSE IF IsNone(stock_int)
           THEN Record([call EXCEPT !.res = Failure("invalid_stock")])
           ELSE IF Lower(category) \notin ProductCategory
           THEN Record([call EXCEPT !.res = Failure("invalid_category")])
           ELSE IF ~ProductCreateValid(name, description, Val(price_float),
                                       Val(stock_int), sku)
           THEN Record([call EXCEPT !.res = Failure("internal_error")])
           ELSE Record([op |-> "create_product", args |-> args,
                        pc |-> "insert", res |-> None, inserted_id |-> None,
                        product_data |->
                            [name |-> name, description |-> description,
                             price |-> Val(price_float),
                             stock |-> Val(stock_int),
                             category |-> Lower(category),
                             sku |-> Val(validate_sku(sku)),
                             tags |-> TagSet(tags)]])

\* DatabaseManager.create_product up to insert_one: DuplicateKeyError
\* makes it return None
insert_create(c) ==
    /\ c \in DOMAIN calls
    /\ calls[c].pc = "insert"
    /\ now < MaxTime
    /\ UNCHANGED <<threshold, last>>
    /\ LET p == calls[c].product_data
       IN  IF ~SkuFree(products, p.sku)
           THEN /\ UNCHANGED <<products, nextId, now>>
                /\ Return(c, Failure("create_failed"))
           ELSE \E tl \in TagLists(p.tags) :
                  /\ products' = Insert(products, nextId,
                                        NewDocument(p.name, p.description,
                                                    p.price, p.stock,
                                                    p.category, p.sku, tl,
                                                    now + 1))
                  /\ nextId' = nextId + 1
                  /\ now' = now + 1
                  /\ calls' = [calls EXCEPT ![c].pc = "refresh",
                                            ![c].inserted_id = Some(IdStr(nextId))]

\* DatabaseManager.create_product after insert_one: the document is read
\* back and the tool returns
refresh_create(c) ==
    /\ c \in DOMAIN calls
    /\ calls[c].pc = "refresh"
    /\ calls[c].op = "create_product"
    /\ UNCHANGED <<products, nextId, now, threshold, last>>
    /\ LET new_product == get_product_by_id(products, Val(calls[c].inserted_id))
       IN  IF ~IsNone(new_product)
           THEN Return(c, Success([id |-> Val(new_product).id,
                                   name |-> Val(new_product).name,
                                   sku |-> Val(new_product).sku,
                                   price |-> Val(new_product).price,
                                   stock |-> Val(new_product).stock,
                                   category |-> Val(new_product).category,
                                   created_at |-> Val(new_product).created_at]))
           ELSE Return(c, Failure("create_failed"))

(***************************************************************************)
(* Specification SpecCreateRace: create_product calls in flight together,  *)
(* with SKUs that are equal, equal up to case, or different.               *)
(***************************************************************************)
InitCreateRace == InitWith({1})

NextCreateRace ==
    \/ \E price \in PriceStrings, stock \in {<<"0">>, <<"1">>}, sku \in SkuStrings :
         begin_create_product(<<"a">>, price, stock, BOOKS, sku, <<>>, <<>>)
    \/ \E c \in 1..MaxCalls : insert_create(c)
    \/ \E c \in 1..MaxCalls : refresh_create(c)

SpecCreateRace == InitCreateRace /\ [][NextCreateRace]_vars

(***************************************************************************)
(* Properties of SpecCreateRace                                            *)
(***************************************************************************)
\* create_product calls c1 and c2 that passed validation with the same
\* normalised SKU
SameSku(c1, c2) ==
    /\ c1 # c2
    /\ calls[c1].op = "create_product" /\ calls[c2].op = "create_product"
    /\ ~IsNone(validate_sku(calls[c1].args.sku))
    /\ validate_sku(calls[c1].args.sku) = validate_sku(calls[c2].args.sku)

Succeeded(c) == calls[c].pc = "done" /\ calls[c].res.success

\* C20: of the create_product calls in flight together with the same
\* normalised SKU, at most one stores a document and at most one reports
\* success, whatever the order of their store requests.
C20_ConcurrentCreate ==
    /\ \A i, j \in DOMAIN products :
          i # j => products[i].sku # products[j].sku
    /\ \A c1, c2 \in DOMAIN calls :
          SameSku(c1, c2) =>
              /\ ~(Succeeded(c1) /\ Succeeded(c2))
              /\ ~(calls[c1].pc = "refresh" /\ Succeeded(c2))
              /\ ~(calls[c1].pc = "refresh" /\ calls[c2].pc = "refresh")

C20_Witness ==
    \E c1, c2 \in DOMAIN calls :
        /\ c1 < c2
        /\ SameSku(c1, c2)
        /\ calls[c1].args.sku # calls[c2].args.sku
        /\ calls[c2].pc = "refresh"
        /\ calls[c1].pc = "done"
        /\ calls[c1].res = Failure("create_failed")

(***************************************************************************)
(* queries/inventory.py: the low-stock aggregation, and the check_low_stock *)
(* tool of tools/inventory_tools.py built on it.                           *)
(***************************************************************************)
HighUrgencyStock == 5

DaysPerStockUnit == 30

\* threshold or settings.low_stock_threshold: None and 0 are both falsy
ThresholdOr(t, configured) ==
    IF IsNone(t) \/ Val(t) = 0 THEN configured ELSE Val(t)

\* the $switch of $addFields
UrgencyLevel(stock, stock_threshold) ==
    IF stock = 0 THEN "critical"
    ELSE IF stock <= HighUrgencyStock THEN "high"
    ELSE IF stock <= stock_threshold THEN "medium"
    ELSE "low"

\* the $match stage
LowStockSelected(coll, stock_threshold) ==
    {i \in DOMAIN coll : /\ coll[i].stock <= stock_threshold
                         /\ coll[i].status # DISCONTINUED}

\* the document $addFields and $project make of the document under _id i
LowStockRow(coll, i, stock_threshold) ==
    [_id |-> i, name |-> coll[i].name, sku |-> coll[i].sku,
     category |-> coll[i].category, current_stock |-> coll[i].stock,
     price |-> coll[i].price,
     urgency_level |-> UrgencyLevel(coll[i].stock, stock_threshold),
     reorder_priority |-> coll[i].price * (stock_threshold - coll[i].stock),
     estimated_days_left |-> IF coll[i].stock = 0 THEN 0
                             ELSE coll[i].stock * DaysPerStockUnit,
     potential_lost_revenue |-> coll[i].price * (stock_threshold - coll[i].stock)]

\* the results of the pipeline low_stock_analysis(threshold) builds:
\* {"$sort": {"reorder_priority": -1}}, equal priorities in any order
low_stock_analysis(coll, t, configured) ==
    LET stock_threshold == ThresholdOr(t, configured)
        rows == {LowStockRow(coll, i, stock_threshold) :
                    i \in LowStockSelected(coll, stock_threshold)}
    IN  {l \in Orderings(rows) :
            \A i, j \in 1..Len(l) :
                i < j => l[i].reorder_priority >= l[j].reorder_priority}

\* json.dumps has no encoding for the ObjectId under _id: TypeError
JsonSerializable(results) ==
    \A k \in 1..Len(results) : "_id" \notin DOMAIN results[k]

UrgencyCount(results, level) ==
    Cardinality({k \in 1..Len(results) : results[k].urgency_level = level})

check_low_stock(t) ==
    LET args == [threshold |-> t]
        stock_threshold == ThresholdOr(t, threshold)
    IN  /\ UNCHANGED <<products, nextId, now, threshold>>
        /\ IF stock_threshold < 0
           THEN Reply("check_low_stock", args, Failure("negative_threshold"))
           ELSE \E results \in low_stock_analysis(products, Some(stock_threshold),
                                                  threshold) :
                  IF ~JsonSerializable(results)
                  THEN Reply("check_low_stock", args, Failure("internal_error"))
                  ELSE Reply("check_low_stock", args,
                             Success([threshold_used |-> stock_threshold,
                                      total_low_stock |-> Len(results),
                                      urgency_breakdown |->
                                          [critical |-> UrgencyCount(results, "critical"),
                                           high |-> UrgencyCount(results, "high"),
                                           medium |-> UrgencyCount(results, "medium"),
                                           low |-> UrgencyCount(results, "low")],
                                      products_by_urgency |-> results]))

(***************************************************************************)
(* tools/analytics_tools.py: get_sales_analytics.  The rows of the         *)
(* aggregation are grouped by calendar period of created_at and are not    *)
(* part of the result modelled here.                                       *)
(***************************************************************************)
ValidPeriods ==
    {<<"d", "a", "y">>, <<"w", "e", "e", "k">>, <<"m", "o", "n", "t", "h">>,
     <<"q", "u", "a", "r", "t", "e", "r">>, <<"y", "e", "a", "r">>}

get_sales_analytics(period, category, include_trends) ==
    LET args == [period |-> period, category |-> category,
                 include_trends |-> include_trends]
    IN  /\ UNCHANGED <<products, nextId, now, threshold>>
        /\ IF period \notin ValidPeriods
           THEN Reply("get_sales_analytics", args, Failure("invalid_period"))
           ELSE IF ~IsNone(category) /\ Val(category) # <<>>
                   /\ Lower(Val(category)) \notin ProductCategory
           THEN Reply("get_sales_analytics", args, Failure("invalid_category"))
           ELSE Reply("get_sales_analytics", args,
                      Success([period |-> period, category_filter |-> category,
                               include_trends |-> include_trends]))

(***************************************************************************)
(* Specification SpecLowStock: a catalogue in two categories with stocks   *)
(* in every urgency range, the low-stock check, the inventory summary and   *)
(* the sales analytics.                                                     *)
(***************************************************************************)
\* name, sku, price, stock and category of the products created
LowStockFixtures ==
    {<<<<"a">>, <<"s", "1">>, <<"1">>, <<"0">>, BOOKS>>,
     <<<<"b">>, <<"s", "2">>, <<"2">>, <<"3">>, BOOKS>>,
     <<<<"c">>, <<"s", "3">>, <<"1">>, <<"7">>, FOOD>>,
     <<<<"d">>, <<"s", "4">>, <<"0">>, <<"1">>, FOOD>>}

CheckThresholds == {None, Some(0), Some(0 - 1), Some(2), Some(8)}

InitLowStock == InitWith({3, DefaultLowStockThreshold})

NextLowStock ==
    \/ \E fx \in LowStockFixtures :
         create_product(fx[1], fx[3], fx[4], fx[5], fx[2], <<>>, <<>>)
    \/ \E ch \in {<<None, Some(DISCONTINUED)>>, <<Some(<<"-", "1">>), None>>} :
         update_product(<<"s", "2">>, None, None, None, ch[1], None, ch[2],
                        None, TRUE)
    \/ \E new_stock \in {<<"4">>, <<"x">>} :
         update_stock(<<"s", "3">>, new_stock, TRUE)
    \/ delete_product(<<"s", "1">>, TRUE, TRUE)
    \/ \E t \in CheckThresholds : check_low_stock(t)
    \/ get_inventory_summary
    \/ \E period \in {<<"m", "o", "n", "t", "h">>, <<"M", "o", "n", "t", "h">>},
          category \in {None, Some(<<"B", "o", "o", "k", "s">>),
                        Some(<<"t", "o", "y", "z">>)} :
         get_sales_analytics(period, category, FALSE)

SpecLowStock == InitLowStock /\ [][NextLowStock]_vars

(***************************************************************************)
(* Properties of SpecLowStock                                              *)
(***************************************************************************)
\* C21: the result of every tool call, whether it succeeded, rejected an
\* argument, found nothing, met a duplicate or caught an exception, carries
\* a boolean success flag, with the data on success and the error otherwise.
C21_SuccessFlag ==
    /\ "success" \in DOMAIN last.res
    /\ last.res.success \in BOOLEAN
    /\ IF last.res.success THEN "data" \in DOMAIN last.res
       ELSE "error" \in DOMAIN last.res

C21_Witness ==
    /\ last.op \in {"create_product", "check_low_stock"}
    /\ "success" \in DOMAIN last.res
    /\ ~last.res.success
    /\ last.res.error = "internal_error"

\* the threshold a check_low_stock call asks for: its argument, or the
\* configured threshold when it has none
AskedThreshold ==
    IF IsNone(last.args.threshold) THEN threshold ELSE Val(last.args.threshold)

\* C24: check_low_stock rejects a negative threshold; for any other
\* threshold t (the argument, or the configured one without argument) it
\* succeeds with threshold_used = t and total_low_stock the number of
\* products not discontinued with stock <= t.
C24_CheckLowStock ==
    last.op = "check_low_stock" =>
        IF AskedThreshold < 0 THEN ~last.res.success
        ELSE /\ last.res.success
             /\ last.res.data.threshold_used = AskedThreshold
             /\ last.res.data.total_low_stock =
                    Cardinality({i \in DOMAIN products :
                                    /\ products[i].stock <= AskedThreshold
                                    /\ products[i].status # DISCONTINUED})

\* the urgency level the classification by fixed stock thresholds gives
FixedUrgency(stock, t) ==
    IF stock = 0 THEN "critical"
    ELSE IF 1 <= stock /\ stock <= 5 THEN "high"
    ELSE IF 5 < stock /\ stock <= t THEN "medium"
    ELSE "low"

\* C25: every product low_stock_analysis selects for a threshold t has the
\* urgency level critical when its stock is 0, high when 1 <= stock <= 5,
\* medium when 5 < stock <= t and low otherwise; its reorder priority is
\* price * (t - stock) and is not negative.
C25_UrgencyLevels ==
    (last.op = "check_low_stock" /\ ThresholdOr(last.args.threshold, threshold) >= 0) =>
        LET t == ThresholdOr(last.args.threshold, threshold)
        IN  \A results \in low_stock_analysis(products, Some(t), threshold) :
              \A k \in 1..Len(results) :
                /\ results[k].urgency_level =
                       FixedUrgency(results[k].current_stock, t)
                /\ results[k].reorder_priority =
                       results[k].price * (t - results[k].current_stock)
                /\ results[k].reorder_priority >= 0

\* C29: the inventory summary has out_of_stock <= low_stock <=
\* total_products, its per-category counts add up to total_products and
\* its category rows come by descending count.
C29_SummaryCounts ==
    last.op = "get_inventory_summary" =>
        LET d == last.res.data
            cats == d.categories_breakdown
        IN  /\ d.out_of_stock_alerts <= d.low_stock_alerts
            /\ d.low_stock_alerts <= d.total_products
            /\ SumFn([k \in 1..Len(cats) |-> cats[k].count]) = d.total_products
            /\ \A i, j \in 1..Len(cats) : i < j => cats[i].count >= cats[j].count

C29_Witness ==
    /\ last.op = "get_inventory_summary"
    /\ Len(last.res.data.categories_breakdown) = 2
    /\ last.res.data.categories_breakdown[1].count
           > last.res.data.categories_breakdown[2].count
    /\ last.res.data.out_of_stock_alerts = 1
    /\ last.res.data.low_stock_alerts = 2

(***************************************************************************)
(* The read paths of the gateway called directly.  store_ok tells whether  *)
(* the store answers the request; when it does not, the client raises and  *)
(* the except clause of the method decides what the caller gets.  A        *)
(* result is the value returned, or an exception that reached the caller.  *)
(***************************************************************************)
Returned(v) == [raised |-> FALSE, value |-> v]

SearchOnFailure_Propagates == [raised |-> TRUE, value |-> <<>>]

\* except Exception: return []
SearchOnFailure == Returned(<<>>)

\* except Exception: return InventorySummary(0, 0.0, 0, 0, [])
SummaryOnFailure ==
    Returned([total_products |-> 0, total_value |-> 0, low_stock_products |-> 0,
              out_of_stock_products |-> 0, categories_breakdown |-> <<>>])

\* except Exception: return {"status": "unhealthy", "connected": False, ...}
HealthOnFailure ==
    Returned([status |-> "unhealthy", connected |-> FALSE])

\* DatabaseManager.search_products(ProductSearchFilter(skip=, limit=))
gateway_search_products(skip, limit, store_ok) ==
    LET args == [skip |-> skip, limit |-> limit, store_ok |-> store_ok]
        f == [NoFilter EXCEPT !.skip = skip, !.limit = limit]
    IN  /\ UNCHANGED <<products, nextId, now, threshold>>
        /\ IF ~store_ok
           THEN Reply("gateway_search_products", args, SearchOnFailure)
           ELSE \E l \in NameOrders(products, Matching(products, f, threshold)) :
                  Reply("gateway_search_products", args,
                        Returned(db_search_products(products, l, f)))

\* DatabaseManager.get_inventory_summary()
gateway_get_inventory_summary(store_ok) ==
    /\ UNCHANGED <<products, nextId, now, threshold>>
    /\ IF ~store_ok
       THEN Reply("gateway_get_inventory_summary", [store_ok |-> store_ok],
                  SummaryOnFailure)
       ELSE \E cats \in CountOrders(CategoryRows(products)) :
              Reply("gateway_get_inventory_summary", [store_ok |-> store_ok],
                    Returned(db_get_inventory_summary(products, threshold, cats)))

\* DatabaseManager.health_check()
health_check(store_ok) ==
    /\ UNCHANGED <<products, nextId, now, threshold>>
    /\ IF ~store_ok
       THEN Reply("health_check", [store_ok |-> store_ok], HealthOnFailure)
       ELSE Reply("health_check", [store_ok |-> store_ok],
                  Returned([status |-> "healthy", connected |-> TRUE,
                            total_products |-> Cardinality(DOMAIN products)]))

(***************************************************************************)
(* Specification SpecGateway: searches with skip and limit over products   *)
(* of which two have the same name, the summary and the health check, with  *)
(* a store that may fail to answer.                                        *)
(***************************************************************************)
\* name and sku of the products created
GatewayFixtures ==
    {<<<<"b">>, <<"s", "1">>>>, <<<<"a">>, <<"s", "2">>>>, <<<<"b">>, <<"s", "3">>>>}

InitGateway == InitWith({1})

NextGateway ==
    \/ \E fx \in GatewayFixtures :
         create_product(fx[1], <<"1">>, <<"1">>, BOOKS, fx[2], <<>>, <<>>)
    \/ \E price \in {<<"0">>, <<"2">>} :
         update_product(<<"s", "1">>, None, None, Some(price), None, None,
                        None, None, TRUE)
    \/ \E skip \in {0, 1}, limit \in {1, 2}, store_ok \in BOOLEAN :
         gateway_search_products(skip, limit, store_ok)
    \/ \E limit \in {0, 200} :
         search_products(<<>>, <<>>, None, None, FALSE, FALSE, limit, <<>>)
    \/ \E store_ok \in BOOLEAN : gateway_get_inventory_summary(store_ok)
    \/ \E store_ok \in BOOLEAN : health_check(store_ok)

SpecGateway == InitGateway /\ [][NextGateway]_vars

(***************************************************************************)
(* Properties of SpecGateway                                               *)
(***************************************************************************)
GatewayRead ==
    {"gateway_search_products", "gateway_get_inventory_summary", "health_check"}

\* C22: when the store fails, search_products returns the empty list,
\* get_inventory_summary the summary of zeros without categories and
\* health_check an unhealthy result with connected false; the failure
\* does not reach the caller, and no gateway read changes the collection.
C22_FailSoftReads ==
    /\ [](last.op \in GatewayRead =>
            /\ ~last.res.raised
            /\ ~last.args.store_ok =>
                 /\ last.op = "gateway_search_products" => last.res.value = <<>>
                 /\ last.op = "gateway_get_inventory_summary" =>
                      /\ last.res.value.total_products = 0
                      /\ last.res.value.total_value = 0
                      /\ last.res.value.low_stock_products = 0
                      /\ last.res.value.out_of_stock_products = 0
                      /\ last.res.value.categories_breakdown = <<>>
                 /\ last.op = "health_check" =>
                      /\ last.res.value.status = "unhealthy"
                      /\ ~last.res.value.connected)
    /\ [][last'.op \in GatewayRead => products' = products]_vars

C22_Witness ==
    /\ last.op = "gateway_search_products"
    /\ ~last.args.store_ok
    /\ last.args.skip = 0
    /\ Cardinality(DOMAIN products) >= 2
    /\ \A i \in DOMAIN products : FieldsValid(products[i])

\* C23: a search without text query returns the products that match, in
\* ascending order of name, from position skip on and at most limit of
\* them; the search_products tool asks for at most 100 and at least 1.
C23_SortSkipLimit ==
    /\ (last.op = "gateway_search_products" /\ last.args.store_ok) =>
          LET f == [NoFilter EXCEPT !.skip = last.args.skip,
                                    !.limit = last.args.limit]
              found == last.res.value
          IN  /\ Len(found) <= last.args.limit
              /\ \E l \in NameOrders(products, Matching(products, f, threshold)) :
                    [k \in 1..Len(found) |-> found[k].id]
                      = [k \in 1..Len(Window(l, f.skip, f.limit)) |->
                            IdStr(Window(l, f.skip, f.limit)[k])]
    /\ (last.op = "search_products" /\ last.res.success) =>
          /\ Len(last.res.data) <= Min(Max(1, last.args.limit), 100)
          /\ Len(last.res.data)
               = Min(Cardinality(DOMAIN products), Min(Max(1, last.args.limit), 100))

(***************************************************************************)
(* Properties of Spec: failed calls and readability                        *)
(***************************************************************************)
WriteTools ==
    {"create_product", "update_product", "update_stock", "delete_product"}

\* C26: a create_product, update_product, update_stock or delete_product
\* call that returns success = false leaves the collection as it was.
C26_FailureChangesNothing ==
    [][(last'.op \in WriteTools /\ last' # last /\ ~last'.res.success)
          => products' = products]_vars

\* C27: every stored product is readable: get_product_by_id returns it,
\* and a search without filter that reaches it returns it.
C27_StoredReadable ==
    \A i \in DOMAIN products :
        /\ ~IsNone(get_product_by_id(products, IdStr(i)))
        /\ \A l \in NameOrders(products, Matching(products, NoFilter, threshold)) :
              \E k \in 1..Len(db_search_products(products, l, NoFilter)) :
                  db_search_products(products, l, NoFilter)[k].id = IdStr(i)

(***************************************************************************)
(* Properties of SpecRace: concurrent stock updates                        *)
(***************************************************************************)
\* C28: when an update_stock call writes, the stock of the product just
\* before the write is the old_stock the call reports (the stock its
\* lookup read), so that the change it reports is the one its write made.
C28_OldStockAtWrite ==
    [][\A c \in DOMAIN calls :
         (/\ WriteStep(c)
          /\ calls[c].op = "update_stock"
          /\ TargetOf(c) \in DOMAIN products)
         => products[TargetOf(c)].stock = calls[c].product.stock]_vars

(***************************************************************************)
(* Lookup by SKU in any letter case                                        *)
(***************************************************************************)
\* SKUs given to create_product, and the spellings given to the lookups
CreateSkus == {<<"a", "b">>, <<"A", "b">>, <<"c", "d">>}

SkuSpellings == {<<"a", "b">>, <<"a", "B">>, <<"A", "B">>, <<"c", "D">>}

InitSkuCase == InitWith({1})

NextSkuCase ==
    \/ \E sku \in CreateSkus :
         create_product(<<"a">>, <<"1">>, <<"1">>, BOOKS, sku, <<>>, <<>>)
    \/ \E identifier \in SkuSpellings : get_product(identifier, TRUE)
    \/ \E identifier \in SkuSpellings, price \in {<<"0">>, <<"2">>} :
         update_product(identifier, None, None, Some(price), None, None,
                        None, None, TRUE)
    \/ \E identifier \in SkuSpellings :
         update_stock(identifier, <<"2">>, TRUE)
    \/ \E identifier \in SkuSpellings : delete_product(identifier, TRUE, TRUE)

SpecSkuCase == InitSkuCase /\ [][NextSkuCase]_vars

\* the spellings of a SKU that differ from it in letter case only
CaseVariants(sku) ==
    {t \in [1..Len(sku) -> UNION {{LowerC(sku[k]), UpperC(sku[k])} :
                                      k \in 1..Len(sku)}] :
         \A k \in 1..Len(sku) : UpperC(t[k]) = UpperC(sku[k])}

BySkuTools == {"get_product", "update_product", "update_stock", "delete_product"}

====
